---- MODULE Spec2Model ----
(***************************************************************************)
(* Model of batch_enrollment_manager.py: the batch enrollment workflow     *)
(* main() = initialise_logger; join_paths; get_unenrolled_data; enroll;    *)
(* clear_unenrolled_data, over the three files enrollment.txt (pending     *)
(* queue), persons.txt (records store) and logs.txt (run log).             *)
(*                                                                         *)
(* A delimited file is a sequence of lines, a line a sequence of fields    *)
(* (strings).  Python's None is the string None.  A log of an unenrolled   *)
(* person is <<image_path, timestamp, id>> (log[0], log[1], log[2] of the  *)
(* source are log[1], log[2], log[3] here).                                *)
(***************************************************************************)
EXTENDS Integers, Sequences, FiniteSets, TLC

VARIABLES
    enrollment_txt,  \* lines of enrollment.txt, the header line included
    persons_txt,     \* rows <<nric, id>> of persons.txt
    logs_txt,        \* records of logs.txt
    pc,              \* statement of main() the process is at, or how it ended
    data_list,       \* main's data_list: the deduplicated logs
    pos,             \* number of logs the for loop of enroll() has finished
    window,          \* the log shown by the open window, or NoWindow
    last_event,      \* (event, values['INPUT'], id) of the last window.read()
    traceback,       \* the uncaught exception that ended the process, or <<>>
    run,             \* number of the current process run
    enrollment0,     \* enrollment.txt as it was when the current run started
    persons0,        \* persons.txt as it was when the current run started
    presented,       \* logs for which initialise_window built a window, this run
    outcomes,        \* decisions taken this run, in order
    prev,            \* how the previous run ended
    added            \* whether the capture process added a row since the last run

vars == <<enrollment_txt, persons_txt, logs_txt, pc, data_list, pos, window,
          last_event, traceback, run, enrollment0, persons0, presented,
          outcomes, prev, added>>

(***************************************************************************)
(* Bounds                                                                  *)
(***************************************************************************)
\* Largest number of data rows of enrollment.txt.
MaxRows == 3
\* Number of successive process runs explored.
MaxRuns == 2

(***************************************************************************)
(* Values                                                                  *)
(***************************************************************************)
None == "None"
NoWindow == <<>>
NoEvent == <<>>
WIN_CLOSED == None

Cards == {"C100", "C200"}
Inputs == {"", "S1234567A"}
Events == {"Submit", "Discard", WIN_CLOSED}

\* The header line clear_unenrolled_data writes, split at the commas.
Header == <<"photo_path", "timestamp", "id">>

BasePhotosPath == "photos"
AbsolutePhotos == {"/cam/b.png"}

\* os.path.join(base_photos_path, row['photo_path'])
JoinPath(base, p) == IF p \in AbsolutePhotos THEN p ELSE base \o "/" \o p

(***************************************************************************)
(* logging                                                                 *)
(***************************************************************************)
LevelNo(level) == CASE level = "DEBUG" -> 10
                    [] level = "INFO" -> 20
                    [] level = "WARNING" -> 30

RootLevel_Debug == "DEBUG"
\* logging.basicConfig(..., level=logging.INFO)
RootLevel == "INFO"

\* logging.info / logging.debug on the root logger: a record below the
\* configured level is dropped.
Logging(log, level, msg, args) ==
    IF LevelNo(level) >= LevelNo(RootLevel)
    THEN Append(log, [levelname |-> level, msg |-> msg, args |-> args])
    ELSE log

MsgRunning == "Program running..."
MsgPaths == "unenrolled_details_path: %s photos_path: %s full_details_path: %s"
MsgRead == "Successfully read unenrolled data."
MsgDiscarded == "Discarded log with smartcard ID %s; no NRIC submission"
MsgInserting == "Inserting NRIC (%s) and corresponding smartcard ID (%s) into persons.txt..."
MsgSuccess == "Success!"
MsgIterated == "All unenrolled persons' details iterated."
MsgNoneFound == "No unenrolled persons found."
MsgCleared == "Cleared enrollment.txt."
MsgClosing == "Closing program..."

\* join_paths()
JoinedPaths == <<"enrollment.txt", BasePhotosPath, "persons.txt">>

(***************************************************************************)
(* csv.DictReader                                                          *)
(***************************************************************************)
\* The field names are the first line of the file, blank or not.
FieldNames(file) == IF file = <<>> THEN <<>> ELSE file[1]

\* The rows the reader yields: the lines after the first, blank lines skipped.
RECURSIVE NonBlank(_)
NonBlank(lines) ==
    IF lines = <<>> THEN <<>>
    ELSE IF Head(lines) = <<>> THEN NonBlank(Tail(lines))
    ELSE <<Head(lines)>> \o NonBlank(Tail(lines))

DataRows(file) == IF file = <<>> THEN <<>> ELSE NonBlank(Tail(file))

HasKey(fieldnames, key) == \E i \in 1..Len(fieldnames) : fieldnames[i] = key

\* The reader built with restval='' in place of the default None.
Field_EmptyRestval(fieldnames, row, key) ==
    LET i == CHOOSE j \in 1..Len(fieldnames) : fieldnames[j] = key
    IN  IF i <= Len(row) THEN row[i] ELSE ""

\* row[key] of dict(zip(fieldnames, row)), a missing trailing field read as
\* restval = None.
Field(fieldnames, row, key) ==
    LET i == CHOOSE j \in 1..Len(fieldnames) : fieldnames[j] = key
    IN  IF i <= Len(row) THEN row[i] ELSE None

(***************************************************************************)
(* get_unenrolled_data                                                     *)
(***************************************************************************)
\* The exception the loop body raises on a row, "" when it raises none.
RowRaises(fieldnames, row) ==
    IF ~HasKey(fieldnames, "photo_path") THEN "KeyError"
    ELSE IF Field(fieldnames, row, "photo_path") = None THEN "TypeError"
    ELSE IF ~HasKey(fieldnames, "timestamp") THEN "KeyError"
    ELSE IF ~HasKey(fieldnames, "id") THEN "KeyError"
    ELSE ""

\* data.append([image_path, timestamp, id])
RowLog(fieldnames, row, base) ==
    << JoinPath(base, Field(fieldnames, row, "photo_path")),
       Field(fieldnames, row, "timestamp"),
       Field(fieldnames, row, "id") >>

ReadRaises(file) ==
    LET rows == DataRows(file)
        bad == {i \in 1..Len(rows) : RowRaises(FieldNames(file), rows[i]) # ""}
    IN  IF bad = {} THEN ""
        ELSE RowRaises(FieldNames(file), rows[CHOOSE i \in bad : \A j \in bad : i <= j])

ReadData(file, base) ==
    LET rows == DataRows(file)
    IN  [i \in 1..Len(rows) |-> RowLog(FieldNames(file), rows[i], base)]

\* d[k] = v on an insertion-ordered dict, held as a sequence of <<key, value>>.
DictSet_MoveToEnd(d, k, v) ==
    Append(SelectSeq(d, LAMBDA e : e[1] # k), <<k, v>>)

DictSet_KeepFirst(d, k, v) ==
    IF \E i \in 1..Len(d) : d[i][1] = k THEN d ELSE Append(d, <<k, v>>)

DictSet(d, k, v) ==
    IF \E i \in 1..Len(d) : d[i][1] = k
    THEN [i \in 1..Len(d) |-> IF d[i][1] = k THEN <<k, v>> ELSE d[i]]
    ELSE Append(d, <<k, v>>)

\* dict((log[2], log) for log in data)
RECURSIVE DictOfLogs(_)
DictOfLogs(data) ==
    IF data = <<>> THEN <<>>
    ELSE LET log == data[Len(data)]
         IN  DictSet(DictOfLogs(SubSeq(data, 1, Len(data) - 1)), log[3], log)

\* .values()
DictValues(d) == [i \in 1..Len(d) |-> d[i][2]]

GetUnenrolledData(file, base) == DictValues(DictOfLogs(ReadData(file, base)))

(***************************************************************************)
(* clear_unenrolled_data, update_full_details, load_window                 *)
(***************************************************************************)
ClearedFile_AppendMode(file) == Append(file, Header)

ClearedFile_Untouched(file) == file

\* open(details_path, "w"); f.write('photo_path,timestamp,id\n')
ClearedFile(file) == <<Header>>

\* The commented-out body: overwrite the row of an id already associated.
UpdateFullDetails_Override(nric, id, persons) ==
    IF \E i \in 1..Len(persons) : persons[i][2] = id
    THEN [i \in 1..Len(persons) |->
            IF persons[i][2] = id THEN <<nric, id>> ELSE persons[i]]
    ELSE Append(persons, <<nric, id>>)

\* open(path, 'a'); writer.writerow([nric, id])
UpdateFullDetails(nric, id, persons) == Append(persons, <<nric, id>>)

LoadWindowPersons_CloseSubmits(event, nric, id, persons) ==
    IF event = "Discard" THEN persons ELSE UpdateFullDetails(nric, id, persons)

\* persons.txt after load_window handled `event` with values['INPUT'] = nric.
LoadWindowPersons(event, nric, id, persons) ==
    IF event = WIN_CLOSED \/ event = "Discard" THEN persons
    ELSE IF event = "Submit" THEN UpdateFullDetails(nric, id, persons)
    ELSE persons

\* logs.txt after load_window handled `event`.
LoadWindowLog(event, nric, id, log) ==
    IF event = WIN_CLOSED \/ event = "Discard"
    THEN Logging(log, "INFO", MsgDiscarded, <<id>>)
    ELSE IF event = "Submit"
    THEN Logging(Logging(log, "INFO", MsgInserting, <<nric, id>>),
                 "INFO", MsgSuccess, <<>>)
    ELSE log

\* The decision load_window took.
Outcome(event, nric, id) ==
    IF event = "Submit" THEN <<"submitted", nric, id>> ELSE <<"discarded", id>>

\* initialise_window: 'Timestamp ' + log[1] and 'Smartcard ID: ' + log[2]
\* raise TypeError on None.
WindowRaises(log) == IF log[2] = None \/ log[3] = None THEN "TypeError" ELSE ""

\* for log in data_list: the loop moves to the next log.
NextPos_Stay(p) == p

NextPos(p) == p + 1

(***************************************************************************)
(* main                                                                    *)
(***************************************************************************)
MainAfter_ClearFirst(stmt) ==
    CASE stmt = "initialise" -> "get_unenrolled_data"
      [] stmt = "get_unenrolled_data" -> "clear_unenrolled_data"
      [] stmt = "clear_unenrolled_data" -> "enroll"
      [] stmt = "enroll" -> "closing"
      [] stmt = "closing" -> "done"

\* The statement of main() that follows `stmt`.
MainAfter(stmt) ==
    CASE stmt = "initialise" -> "get_unenrolled_data"
      [] stmt = "get_unenrolled_data" -> "enroll"
      [] stmt = "enroll" -> "clear_unenrolled_data"
      [] stmt = "clear_unenrolled_data" -> "closing"
      [] stmt = "closing" -> "done"

\* At "initialise" the script has not been launched yet.
Running == {"get_unenrolled_data", "enroll", "clear_unenrolled_data", "closing"}
Ended == {"done", "crashed", "killed"}

\* main() up to the read: initialise_logger (filemode='w' empties logs.txt),
\* the start line, join_paths and the debug line of the paths.
Start ==
    /\ pc = "initialise"
    /\ logs_txt' = Logging(Logging(<<>>, "INFO", MsgRunning, <<>>),
                           "DEBUG", MsgPaths, JoinedPaths)
    /\ enrollment0' = enrollment_txt
    /\ persons0' = persons_txt
    /\ pc' = MainAfter("initialise")
    /\ UNCHANGED <<enrollment_txt, persons_txt, data_list, pos, window,
                   last_event, traceback, run, presented, outcomes, prev, added>>

\* data_list = get_unenrolled_data(...), returning.
GetUnenrolledDataReturns ==
    /\ pc = "get_unenrolled_data"
    /\ ReadRaises(enrollment_txt) = ""
    /\ logs_txt' = Logging(logs_txt, "INFO", MsgRead, <<>>)
    /\ data_list' = GetUnenrolledData(enrollment_txt, JoinedPaths[2])
    /\ pc' = MainAfter("get_unenrolled_data")
    /\ UNCHANGED <<enrollment_txt, persons_txt, pos, window, last_event,
                   traceback, run, enrollment0, persons0, presented, outcomes,
                   prev, added>>

\* get_unenrolled_data raising on a row: the process ends with the exception.
GetUnenrolledDataRaises ==
    /\ pc = "get_unenrolled_data"
    /\ ReadRaises(enrollment_txt) # ""
    /\ traceback' = <<ReadRaises(enrollment_txt), "get_unenrolled_data">>
    /\ pc' = "crashed"
    /\ UNCHANGED <<enrollment_txt, persons_txt, logs_txt, data_list, pos,
                   window, last_event, run, enrollment0, persons0, presented,
                   outcomes, prev, added>>

\* enroll(): data_list is empty.
EnrollNoneFound ==
    /\ pc = "enroll"
    /\ data_list = <<>>
    /\ logs_txt' = Logging(logs_txt, "INFO", MsgNoneFound, <<>>)
    /\ pc' = MainAfter("enroll")
    /\ UNCHANGED <<enrollment_txt, persons_txt, data_list, pos, window,
                   last_event, traceback, run, enrollment0, persons0,
                   presented, outcomes, prev, added>>

\* window = initialise_window(log) for the next log of the loop.
InitialiseWindow ==
    /\ pc = "enroll"
    /\ window = NoWindow
    /\ pos < Len(data_list)
    /\ WindowRaises(data_list[pos + 1]) = ""
    /\ window' = data_list[pos + 1]
    /\ presented' = Append(presented, data_list[pos + 1])
    /\ UNCHANGED <<enrollment_txt, persons_txt, logs_txt, pc, data_list, pos,
                   last_event, traceback, run, enrollment0, persons0, outcomes,
                   prev, added>>

\* initialise_window raising while it builds the layout: no window is made.
InitialiseWindowRaises ==
    /\ pc = "enroll"
    /\ window = NoWindow
    /\ pos < Len(data_list)
    /\ WindowRaises(data_list[pos + 1]) # ""
    /\ traceback' = <<WindowRaises(data_list[pos + 1]), "initialise_window">>
    /\ pc' = "crashed"
    /\ UNCHANGED <<enrollment_txt, persons_txt, logs_txt, data_list, pos,
                   window, last_event, run, enrollment0, persons0, presented,
                   outcomes, prev, added>>

\* load_window(window, log, full_details_path): window.read() returns
\* (event, {'INPUT': input}); the branch taken; window.close().
LoadWindow(event, input) ==
    /\ pc = "enroll"
    /\ window # NoWindow
    /\ last_event' = <<event, input, window[3]>>
    /\ persons_txt' = LoadWindowPersons(event, input, window[3], persons_txt)
    /\ logs_txt' = LoadWindowLog(event, input, window[3], logs_txt)
    /\ outcomes' = Append(outcomes, Outcome(event, input, window[3]))
    /\ window' = NoWindow
    /\ pos' = NextPos(pos)
    /\ UNCHANGED <<enrollment_txt, pc, data_list, traceback, run, enrollment0,
                   persons0, presented, prev, added>>

\* enroll(): the for loop is exhausted.
EnrollIterated ==
    /\ pc = "enroll"
    /\ data_list # <<>>
    /\ window = NoWindow
    /\ pos >= Len(data_list)
    /\ logs_txt' = Logging(logs_txt, "INFO", MsgIterated, <<>>)
    /\ pc' = MainAfter("enroll")
    /\ UNCHANGED <<enrollment_txt, persons_txt, data_list, pos, window,
                   last_event, traceback, run, enrollment0, persons0,
                   presented, outcomes, prev, added>>

\* clear_unenrolled_data(unenrolled_details_path)
ClearUnenrolledData ==
    /\ pc = "clear_unenrolled_data"
    /\ enrollment_txt' = ClearedFile(enrollment_txt)
    /\ logs_txt' = Logging(logs_txt, "INFO", MsgCleared, <<>>)
    /\ pc' = MainAfter("clear_unenrolled_data")
    /\ UNCHANGED <<persons_txt, data_list, pos, window, last_event, traceback,
                   run, enrollment0, persons0, presented, outcomes, prev, added>>

\* logging.info("Closing program...") and the return of main().
Closing ==
    /\ pc = "closing"
    /\ logs_txt' = Logging(logs_txt, "INFO", MsgClosing, <<>>)
    /\ pc' = MainAfter("closing")
    /\ UNCHANGED <<enrollment_txt, persons_txt, data_list, pos, window,
                   last_event, traceback, run, enrollment0, persons0,
                   presented, outcomes, prev, added>>

(***************************************************************************)
(* The environment: termination of the process, the next run of the        *)
(* script, and the capture process that appends rows to enrollment.txt.    *)
(***************************************************************************)
\* The process is terminated from outside; the files stay as written so far.
Kill ==
    /\ pc \in Running
    /\ pc' = "killed"
    /\ window' = NoWindow
    /\ UNCHANGED <<enrollment_txt, persons_txt, logs_txt, data_list, pos,
                   last_event, traceback, run, enrollment0, persons0,
                   presented, outcomes, prev, added>>

\* `python batch_enrollment_manager.py` once more: a new process, the files kept.
Rerun ==
    /\ pc \in Ended
    /\ run < MaxRuns
    /\ run' = run + 1
    /\ prev' = [end |-> pc, data_list |-> data_list, pos |-> pos,
                enrollment0 |-> enrollment0]
    /\ pc' = "initialise"
    /\ data_list' = <<>>
    /\ pos' = 0
    /\ window' = NoWindow
    /\ last_event' = NoEvent
    /\ traceback' = <<>>
    /\ presented' = <<>>
    /\ outcomes' = <<>>
    /\ added' = FALSE
    /\ UNCHANGED <<enrollment_txt, persons_txt, logs_txt, enrollment0, persons0>>

Photo(k) == "img" \o ToString(k) \o ".png"
Timestamp(k) == "T" \o ToString(k)

\* Between two runs the capture process appends one well-formed row.
Capture(card) ==
    /\ pc = "initialise"
    /\ run > 1
    /\ ~added
    /\ enrollment_txt # <<>>
    /\ Len(enrollment_txt) <= MaxRows
    /\ enrollment_txt' =
         Append(enrollment_txt,
                <<Photo(Len(enrollment_txt)), Timestamp(Len(enrollment_txt)), card>>)
    /\ added' = TRUE
    /\ UNCHANGED <<persons_txt, logs_txt, pc, data_list, pos, window,
                   last_event, traceback, run, enrollment0, persons0,
                   presented, outcomes, prev>>

(***************************************************************************)
(* Specification of the workflow                                           *)
(***************************************************************************)
\* The rows the capture process can have written as data row k: a full row for
\* one of the cards, or a row cut short after the timestamp or after the photo.
RowKinds == Cards \cup {"no id", "no timestamp"}

RowAt(k, kind) ==
    IF kind = "no timestamp" THEN <<Photo(k)>>
    ELSE IF kind = "no id" THEN <<Photo(k), Timestamp(k)>>
    ELSE <<Photo(k), Timestamp(k), kind>>

\* A header without the id column.
HeaderNoId == <<"photo_path", "timestamp">>

\* enrollment.txt before the first run: the header and up to MaxRows rows, or
\* a file whose header lacks the id column.
IsPendingFile(file) ==
    \/ \E n \in 0..MaxRows : \E kinds \in [1..n -> RowKinds] :
         file = <<Header>> \o [k \in 1..n |-> RowAt(k, kinds[k])]
    \/ \E kind \in RowKinds : file = <<HeaderNoId, RowAt(1, kind)>>

Init ==
    /\ IsPendingFile(enrollment_txt)
    /\ persons_txt = << <<"S0000000Z", "C100">> >>
    /\ logs_txt = <<>>
    /\ pc = "initialise"
    /\ data_list = <<>>
    /\ pos = 0
    /\ window = NoWindow
    /\ last_event = NoEvent
    /\ traceback = <<>>
    /\ run = 1
    /\ enrollment0 = enrollment_txt
    /\ persons0 = persons_txt
    /\ presented = <<>>
    /\ outcomes = <<>>
    /\ prev = [end |-> "none", data_list |-> <<>>, pos |-> 0,
               enrollment0 |-> <<>>]
    /\ added = FALSE

Next ==
    \/ Start
    \/ GetUnenrolledDataReturns
    \/ GetUnenrolledDataRaises
    \/ EnrollNoneFound
    \/ InitialiseWindow
    \/ InitialiseWindowRaises
    \/ \E event \in Events, input \in Inputs : LoadWindow(event, input)
    \/ EnrollIterated
    \/ ClearUnenrolledData
    \/ Closing
    \/ Kill
    \/ Rerun
    \/ \E card \in Cards : Capture(card)

Spec == Init /\ [][Next]_vars

(***************************************************************************)
(* Specification of the read pass alone: get_unenrolled_data applied to    *)
(* every small enrollment.txt, well formed or not.                         *)
(***************************************************************************)
ReadRowKinds ==
    {<<p, t, c>> : p \in {"a.png", "/cam/b.png"}, t \in {"T1", "T2"}, c \in Cards}
      \cup {<<>>, <<"a.png">>, <<"a.png", "T1">>,
            <<"a.png", "T1", "C100", "extra">>}

ReadHeaders == {Header, <<"id", "timestamp", "photo_path">>, HeaderNoId, <<>>}

\* enrollment.txt before the read: empty, or a first line and up to MaxRows
\* further lines.
IsReadFile(file) ==
    \/ file = <<>>
    \/ \E n \in 0..MaxRows : \E h \in ReadHeaders :
         \E rows \in [1..n -> ReadRowKinds] : file = <<h>> \o rows

InitRead ==
    /\ IsReadFile(enrollment_txt)
    /\ persons_txt = <<>>
    /\ logs_txt = <<>>
    /\ pc = "initialise"
    /\ data_list = <<>>
    /\ pos = 0
    /\ window = NoWindow
    /\ last_event = NoEvent
    /\ traceback = <<>>
    /\ run = 1
    /\ enrollment0 = enrollment_txt
    /\ persons0 = persons_txt
    /\ presented = <<>>
    /\ outcomes = <<>>
    /\ prev = [end |-> "none", data_list |-> <<>>, pos |-> 0,
               enrollment0 |-> <<>>]
    /\ added = FALSE

NextRead ==
    \/ Start
    \/ GetUnenrolledDataReturns
    \/ GetUnenrolledDataRaises

SpecRead == InitRead /\ [][NextRead]_vars

(***************************************************************************)
(* Properties of the read pass (checked under SpecRead)                    *)
(***************************************************************************)
\* The rows the reader yielded, and the card identifier of row i (None when
\* the row has no id field).
InputRows == DataRows(enrollment_txt)
InputId(i) == Field(FieldNames(enrollment_txt), InputRows[i], "id")
InputIds == {InputId(i) : i \in 1..Len(InputRows)}
LastRowOf(id) ==
    CHOOSE i \in 1..Len(InputRows) :
        /\ InputId(i) = id
        /\ \A j \in 1..Len(InputRows) : InputId(j) = id => j <= i
FirstRowOf(id) ==
    CHOOSE i \in 1..Len(InputRows) :
        /\ InputId(i) = id
        /\ \A j \in 1..Len(InputRows) : InputId(j) = id => i <= j

\* C1: the result of get_unenrolled_data has exactly one entry per distinct
\* card identifier of the input, and that entry carries the (joined) photo
\* reference and the timestamp of the last input row with that identifier.
C1_OneEntryPerCardLastWins ==
    pc = "enroll" =>
      /\ \A id \in InputIds :
           Cardinality({i \in 1..Len(data_list) : data_list[i][3] = id}) = 1
      /\ \A i \in 1..Len(data_list) :
           /\ data_list[i][3] \in InputIds
           /\ LET row == InputRows[LastRowOf(data_list[i][3])]
                  names == FieldNames(enrollment_txt)
              IN  /\ data_list[i][1] =
                       JoinPath(BasePhotosPath, Field(names, row, "photo_path"))
                  /\ data_list[i][2] = Field(names, row, "timestamp")

\* A read of an input with two rows for one card that differ in photo and
\* timestamp.
C1_Witness ==
    /\ pc = "enroll"
    /\ Len(data_list) = 2
    /\ \E i, j \in 1..Len(InputRows) :
         /\ i < j
         /\ InputId(i) = InputId(j)
         /\ InputRows[i][1] # InputRows[j][1]
         /\ InputRows[i][2] # InputRows[j][2]

\* C2: the result lists the distinct card identifiers in the order of their
\* first appearance in the input; a later duplicate row overwrites the value
\* (it is the last row's, C1) but does not move the key.
C2_FirstAppearanceOrder ==
    pc = "enroll" =>
      \A i, j \in 1..Len(data_list) :
        i < j => FirstRowOf(data_list[i][3]) < FirstRowOf(data_list[j][3])

\* A read of an input a, b, a: the first card's last row comes after the
\* second card's, and the first card still comes first with its last value.
C2_Witness ==
    /\ pc = "enroll"
    /\ Len(InputRows) = 3
    /\ InputId(1) = InputId(3)
    /\ InputId(1) # InputId(2)
    /\ InputRows[1] # InputRows[3]
    /\ Len(data_list) = 2
    /\ data_list[1][3] = InputId(1)
    /\ data_list[1][2] = InputRows[3][2]

(***************************************************************************)
(* Properties of the workflow (checked under Spec)                         *)
(***************************************************************************)
\* The load_window step: the only step that advances the loop.
Resolves == pos' = pos + 1 /\ last_event' # NoEvent

\* The rows <<nric, id>> of the decisions that were submits, in order.
RECURSIVE SubmittedRows(_)
SubmittedRows(os) ==
    IF os = <<>> THEN <<>>
    ELSE LET o == Head(os)
         IN  (IF o[1] = "submitted" THEN << <<o[2], o[3]>> >> ELSE <<>>)
               \o SubmittedRows(Tail(os))

OutcomeId(o) == o[Len(o)]

\* Number of records of `log` with message `msg`.
CountMsg(log, msg) == Cardinality({i \in 1..Len(log) : log[i].msg = msg})

\* C3: a Submit on an entry with card id c and typed identifier n makes
\* persons.txt its prior content followed by the one row <<n, c>>.
C3_SubmitAppendsOneRow ==
    [][Resolves /\ last_event'[1] = "Submit" =>
         /\ last_event'[3] = window[3]
         /\ persons_txt' = Append(persons_txt, <<last_event'[2], window[3]>>)]_vars

\* A Submit of the empty string for a card that already had a row: both rows
\* are in persons.txt.
C3_Witness ==
    /\ last_event # NoEvent
    /\ last_event[1] = "Submit"
    /\ last_event[2] = ""
    /\ Len(persons_txt) >= 2
    /\ persons_txt[Len(persons_txt)] = <<"", last_event[3]>>
    /\ \E i \in 1..(Len(persons_txt) - 1) : persons_txt[i][2] = last_event[3]

\* C4: resolving an entry by Discard or by closing the window leaves
\* persons.txt unchanged, whatever was typed.
C4_DiscardAppendsNothing ==
    [][Resolves /\ last_event'[1] \in {"Discard", WIN_CLOSED} =>
         persons_txt' = persons_txt]_vars

\* The window was closed with an identifier typed in, and nothing was written.
C4_Witness ==
    /\ last_event # NoEvent
    /\ last_event[1] = WIN_CLOSED
    /\ last_event[2] = "S1234567A"
    /\ pos = 1
    /\ persons_txt = persons0

\* C5: the entries are presented once each, in sequence order; each gets its
\* one outcome before the next is presented; a completed run has resolved all
\* N entries and appended one row per submit, between 0 and N rows.
C5_OneOutcomePerEntryInOrder ==
    /\ Len(presented) <= Len(data_list)
    /\ presented = SubSeq(data_list, 1, Len(presented))
    /\ \A i, j \in 1..Len(presented) : i # j => presented[i] # presented[j]
    /\ Len(outcomes) = pos
    /\ pos <= Len(presented) /\ Len(presented) <= pos + 1
    /\ window # NoWindow =>
         Len(presented) = pos + 1 /\ window = presented[pos + 1]
    /\ \A i \in 1..Len(outcomes) : OutcomeId(outcomes[i]) = presented[i][3]
    /\ pc = "done" =>
         /\ pos = Len(data_list)
         /\ Len(presented) = Len(data_list)
         /\ persons_txt = persons0 \o SubmittedRows(outcomes)
         /\ Len(persons_txt) - Len(persons0) \in 0..Len(data_list)

\* A completed run over two entries, the first submitted, the second discarded.
C5_Witness ==
    /\ pc = "done"
    /\ Len(data_list) = 2
    /\ outcomes[1][1] = "submitted"
    /\ outcomes[2][1] = "discarded"
    /\ Len(persons_txt) = Len(persons0) + 1

\* C6: whenever main has run to completion, enrollment.txt is the header line
\* alone.
C6_QueueHeaderOnlyAfterRun ==
    pc = "done" => enrollment_txt = <<Header>>

\* A completed run that started with a full queue and discarded every entry.
C6_Witness ==
    /\ pc = "done"
    /\ Len(enrollment0) = MaxRows + 1
    /\ outcomes # <<>>
    /\ \A i \in 1..Len(outcomes) : outcomes[i][1] = "discarded"
    /\ enrollment_txt # enrollment0

\* C7: the queue is cleared once per run and only after every entry is
\* resolved; until then enrollment.txt has all its original rows and
\* persons.txt the rows submitted so far; a run that follows a run terminated
\* with an entry unresolved reads the same entries again.
C7_ClearOnceAfterLoop ==
    pc # "initialise" =>
      /\ CountMsg(logs_txt, MsgCleared) <= 1
      /\ pc \in {"closing", "done"} => CountMsg(logs_txt, MsgCleared) = 1
      /\ CountMsg(logs_txt, MsgCleared) = 1 =>
           /\ pos = Len(data_list)
           /\ Len(outcomes) = Len(data_list)
           /\ window = NoWindow
      /\ (CountMsg(logs_txt, MsgCleared) = 0 \/ pos < Len(data_list)) =>
           /\ enrollment_txt = enrollment0
           /\ persons_txt = persons0 \o SubmittedRows(outcomes)
      /\ ( /\ prev.end = "killed"
           /\ prev.pos < Len(prev.data_list)
           /\ ~added
           /\ CountMsg(logs_txt, MsgRead) = 1 ) =>
           data_list = prev.data_list

\* The second run after a run killed with its second entry unresolved and its
\* first entry submitted: the submitted entry is presented again.
C7_Witness ==
    /\ run = 2
    /\ prev.end = "killed"
    /\ prev.pos = 1
    /\ Len(prev.data_list) = 2
    /\ Len(persons0) = 2
    /\ window # NoWindow
    /\ pos = 0
    /\ window[3] = persons0[2][2]
    /\ enrollment_txt = prev.enrollment0

\* C8: a run that follows a completed run, with no row added in between,
\* presents no entry, appends nothing to persons.txt and leaves
\* enrollment.txt header-only.
C8_SecondRunIsEmpty ==
    (run > 1 /\ prev.end = "done" /\ ~added /\ pc # "initialise") =>
      /\ presented = <<>>
      /\ data_list = <<>>
      /\ persons_txt = persons0
      /\ pc # "crashed"
      /\ pc = "done" => enrollment_txt = <<Header>>

\* The second run completed after a first run that presented two entries and
\* submitted at least one.
C8_Witness ==
    /\ run = 2
    /\ prev.end = "done"
    /\ ~added
    /\ pc = "done"
    /\ Len(prev.data_list) = 2
    /\ Len(persons_txt) >= 2
    /\ CountMsg(logs_txt, MsgNoneFound) = 1

\* enrollment.txt has the header photo_path,timestamp,id and a data row with
\* fewer fields than the header.
HasShortRow(file) ==
    /\ file # <<>>
    /\ file[1] = Header
    /\ \E i \in 2..Len(file) : file[i] # <<>> /\ Len(file[i]) < Len(Header)

HasNone(log) == \E k \in 1..Len(log) : log[k] = None

\* C9 as stated: a data row missing a field halts the run inside
\* get_unenrolled_data, before any entry is presented or any row appended,
\* without clearing the queue, and the row is not turned into an entry.
C9_HaltsInsideRead ==
    (pc # "initialise" /\ HasShortRow(enrollment0)) =>
      /\ pc \in {"get_unenrolled_data", "crashed", "killed"}
      /\ pc = "crashed" => traceback[2] = "get_unenrolled_data"
      /\ data_list = <<>>
      /\ presented = <<>>
      /\ persons_txt = persons0
      /\ enrollment_txt = enrollment0

\* C9 amended: the read accepts the short row and turns it into an entry with
\* None for the missing fields; the run halts with a TypeError in
\* initialise_window when the loop reaches that entry, after the entries
\* before it were presented and resolved and their submits appended; the entry
\* itself is never presented and the queue is never cleared.
C9_HaltsInInitialiseWindow ==
    (pc # "initialise" /\ HasShortRow(enrollment0)) =>
      /\ pc \notin {"clear_unenrolled_data", "closing", "done"}
      /\ enrollment_txt = enrollment0
      /\ CountMsg(logs_txt, MsgRead) = 1 =>
           Cardinality({i \in 1..Len(data_list) : HasNone(data_list[i])}) = 1
      /\ \A i \in 1..Len(presented) : ~HasNone(presented[i])
      /\ pc = "crashed" =>
           /\ traceback = <<"TypeError", "initialise_window">>
           /\ pos < Len(data_list)
           /\ HasNone(data_list[pos + 1])
           /\ presented = SubSeq(data_list, 1, pos)
           /\ Len(outcomes) = pos
           /\ persons_txt = persons0 \o SubmittedRows(outcomes)

\* The run crashed on the entry of a short row after an earlier entry was
\* presented and submitted.
C9_Witness ==
    /\ pc = "crashed"
    /\ HasShortRow(enrollment0)
    /\ pos = 1
    /\ outcomes[1][1] = "submitted"
    /\ Len(persons_txt) = Len(persons0) + 1
    /\ enrollment_txt = enrollment0

Rec(level, msg, args) == [levelname |-> level, msg |-> msg, args |-> args]

\* Whether the records of `a` occur in `b` in the same order.
RECURSIVE IsSubseq(_, _)
IsSubseq(a, b) ==
    IF a = <<>> THEN TRUE
    ELSE IF b = <<>> THEN FALSE
    ELSE IF Head(a) = Head(b) THEN IsSubseq(Tail(a), Tail(b))
    ELSE IsSubseq(a, Tail(b))

\* One outcome line per decision: the submit line with identifier and card id,
\* or the discard line with card id.
RECURSIVE OneLinePerOutcome(_)
OneLinePerOutcome(os) ==
    IF os = <<>> THEN <<>>
    ELSE LET o == Head(os)
         IN  << IF o[1] = "submitted"
                THEN Rec("INFO", MsgInserting, <<o[2], o[3]>>)
                ELSE Rec("INFO", MsgDiscarded, <<o[2]>>) >>
               \o OneLinePerOutcome(Tail(os))

\* The lines load_window writes per decision: a submit writes the submit line
\* and then the success line of update_full_details.
RECURSIVE LinesPerOutcome(_)
LinesPerOutcome(os) ==
    IF os = <<>> THEN <<>>
    ELSE LET o == Head(os)
         IN  (IF o[1] = "submitted"
              THEN << Rec("INFO", MsgInserting, <<o[2], o[3]>>),
                      Rec("INFO", MsgSuccess, <<>>) >>
              ELSE << Rec("INFO", MsgDiscarded, <<o[2]>>) >>)
               \o LinesPerOutcome(Tail(os))

IterationLine ==
    IF data_list = <<>> THEN Rec("INFO", MsgNoneFound, <<>>)
    ELSE Rec("INFO", MsgIterated, <<>>)

\* C10 as stated: the log of a completed run contains, in this order, run
\* start, the resolved paths, read success, one outcome line per presented
\* entry, completion of iteration (or no entries found), queue-clear
\* confirmation, run end.
C10_LogHasPathsLine ==
    pc = "done" =>
      IsSubseq(<< Rec("INFO", MsgRunning, <<>>),
                  Rec("DEBUG", MsgPaths, JoinedPaths),
                  Rec("INFO", MsgRead, <<>>) >>
                 \o OneLinePerOutcome(outcomes)
                 \o << IterationLine,
                       Rec("INFO", MsgCleared, <<>>),
                       Rec("INFO", MsgClosing, <<>>) >>,
               logs_txt)

\* C10 amended: the log of a completed run is exactly run start, read
\* success, the lines of each presented entry's outcome (for a submit the
\* line with identifier and card id followed by the success line; for a
\* discard the line with card id), completion of iteration (or no entries
\* found), queue-clear confirmation, run end.  The resolved paths are logged
\* at DEBUG, below the configured level INFO, and are not in the log.
C10_LogOfCompletedRun ==
    pc = "done" =>
      /\ logs_txt = << Rec("INFO", MsgRunning, <<>>),
                       Rec("INFO", MsgRead, <<>>) >>
                      \o LinesPerOutcome(outcomes)
                      \o << IterationLine,
                            Rec("INFO", MsgCleared, <<>>),
                            Rec("INFO", MsgClosing, <<>>) >>
      /\ Len(outcomes) = Len(presented)
      /\ CountMsg(logs_txt, MsgPaths) = 0

\* A completed run whose log has a discard line followed by the two lines of
\* a submit.
C10_Witness ==
    /\ pc = "done"
    /\ Len(outcomes) = 2
    /\ outcomes[1][1] = "discarded"
    /\ outcomes[2][1] = "submitted"
    /\ Len(logs_txt) = 8

====
